---- MODULE Spec2Model ----
(***************************************************************************)
(* MemoGarden Core API: the transaction / recurrence route handlers of     *)
(* api/v1/core and the storage core they call (entity registry, versioned  *)
(* record store, supersede/tombstone, unit-of-work).                       *)
(*                                                                         *)
(* The route handlers are translated from src/api/api/v1/core/*.py.  The   *)
(* storage core (package system.core) is not part of the source tree; its  *)
(* operations are modelled from the design document (spec.md sections      *)
(* 4.1-4.5) and are the operators named Hasher, Registry_*, Record_* and   *)
(* Scope_* below.                                                          *)
(***************************************************************************)
EXTENDS Integers, Sequences, FiniteSets, TLC

\* ------------------------------------------------------------------ bounds
\* The clock stops here: every commit takes one tick, so MaxTime bounds the
\* number of commits of a behaviour.
MaxTime == 3
\* At most MaxIds ids are minted (entities and tombstones, staged or committed).
MaxIds == 3

\* ----------------------------------------------------------- vocabulary
Callers == {"c1", "c2"}

Kinds == {"transactions", "recurrences"}

\* Business fields of a transaction row that the model tracks.
Fields == {"amount", "account"}

\* Two values per field: enough to tell a changed field from a kept one.
Values == {0, 1}

\* A nullable column: NULL or a one-element set holding the value.
NULL == {}

Some(x) == {x}

\* The digest that stands for "no hash": previous_hash of version 1, and a
\* based_on_hash the client left out (None or the empty string, both falsy).
NoHash == <<>>

\* An id that no entity ever has.
UnknownUuid == 0

VARIABLES
    db,       \* committed storage: [entity: id -> Entity, record: id -> Record]
    uow,      \* the open unit-of-work: [owner: NULL or Some(caller), db: staged storage]
    now,      \* the clock the core stamps rows with
    minted,   \* number of ids minted so far (ids are 1..minted)
    chain,    \* history: id -> the record states committed under id, in order, each
              \*   with the version its writer had read (0 for the create)
    pc,       \* caller -> position in its handler
    loc,      \* caller -> the handler's local variables
    resp      \* caller -> the response the handler returned

vars == <<db, uow, now, minted, chain, pc, loc, resp>>

\* ------------------------------------------------------------ identifiers
\* An id as it appears in a URL or a response: the uuid with or without the
\* "core_" prefix.
ApiId(prefix, uuid) == [prefix |-> prefix, uuid |-> uuid]

\* uid.strip_prefix: the bare uuid.
strip_prefix(id) == ApiId("", id.uuid)

\* uid.add_core_prefix: the uuid with the core_ prefix.
add_core_prefix(uuid) == ApiId("core_", uuid)

\* ------------------------------------------------------------ 4.1 Hasher
\* A collision-free digest of (fields, previous_hash): the pair itself.
Hasher(fields, previous_hash) == <<fields, previous_hash>>

\* The field sets as a caller hands them over: a listing of (name, value)
\* pairs in some order, every name at most once.
Listings ==
    {l \in UNION {[1..n -> Fields \X Values] : n \in 0..Cardinality(Fields)} :
        \A i, j \in DOMAIN l : i # j => l[i][1] # l[j][1]}

\* The canonical encoding of a listing: the value of every name, whatever the
\* position of the pair.
canonical(listing) ==
    [f \in {listing[i][1] : i \in DOMAIN listing} |->
        listing[CHOOSE i \in DOMAIN listing : listing[i][1] = f][2]]

\* hash with the listing digested in the order given.
hash_in_listing_order(listing, previous_hash) == Hasher(listing, previous_hash)

\* hash(fields, previous_hash): the digest of the canonical encoding mixed
\* with previous_hash.
hash(listing, previous_hash) == Hasher(canonical(listing), previous_hash)

\* ------------------------------------------------------ partial updates
\* The request bodies a client can send: every subset of the fields, each
\* with a value (model_dump(exclude_unset=True) keeps exactly the fields set).
UpdateData == UNION {[S -> Values] : S \in SUBSET Fields}

\* The bodies of a create request: every field is given.
TransactionCreate == [Fields -> Values]

\* new_fields merged over the current fields.
Merge(cur, new_fields) ==
    [f \in DOMAIN cur |-> IF f \in DOMAIN new_fields THEN new_fields[f] ELSE cur[f]]

\* --------------------------------------------------- 4.2 Entity Registry
EmptyDb == [entity |-> <<>>, record |-> <<>>]

Exists(d, uuid) == uuid \in DOMAIN d.entity

IsSuperseded(d, uuid) == d.entity[uuid].superseded_by # NULL

\* create(kind): one registry insert, created_at = updated_at = now, no
\* supersession, no group, no provenance.
Registry_create(d, uuid, kind, t) ==
    [d EXCEPT !.entity = (uuid :> [kind          |-> kind,
                                   created_at    |-> t,
                                   updated_at    |-> t,
                                   superseded_by |-> NULL,
                                   superseded_at |-> NULL,
                                   group_id      |-> NULL,
                                   derived_from  |-> NULL]) @@ @]

\* touch(id): updated_at = now.
Registry_touch(d, uuid, t) ==
    [d EXCEPT !.entity[uuid].updated_at = t]

\* supersede(target, successor): the outcome, "ok" only for a known target
\* that is not superseded yet.
Registry_supersede_outcome(d, target, successor) ==
    IF ~Exists(d, target) THEN "NotFound"
    ELSE IF IsSuperseded(d, target) THEN "AlreadySuperseded"
    ELSE "ok"

Registry_supersede(d, target, successor, t) ==
    [d EXCEPT !.entity[target].superseded_by = Some(successor),
              !.entity[target].superseded_at = Some(t)]

\* ------------------------------------------- 4.3 Versioned Record Store
\* The joined view of one kind: the ids that have a record and an entity of
\* that kind.
InView(d, kind, uuid) ==
    /\ uuid \in DOMAIN d.record
    /\ uuid \in DOMAIN d.entity
    /\ d.entity[uuid].kind = kind

\* create(kind, fields): registry create, then the record row at version 1.
Record_create(d, uuid, kind, fields, t) ==
    [Registry_create(d, uuid, kind, t)
        EXCEPT !.record = (uuid :> [fields        |-> fields,
                                    version       |-> 1,
                                    hash          |-> Hasher(fields, NoHash),
                                    previous_hash |-> NoHash]) @@ @]

\* update(id, new_fields) with no precondition: the outcome ...
Record_update_outcome(d, kind, uuid) ==
    IF ~InView(d, kind, uuid) THEN "NotFound"
    ELSE IF IsSuperseded(d, uuid) THEN "ImmutableRecord"
    ELSE "ok"

\* ... and the conditional write: version + 1, the hash chained on the
\* current hash, the fields merged, then touch(id).
Record_update(d, uuid, new_fields, t) ==
    LET cur    == d.record[uuid]
        merged == Merge(cur.fields, new_fields)
    IN  Registry_touch(
            [d EXCEPT !.record[uuid] = [fields        |-> merged,
                                        version       |-> cur.version + 1,
                                        hash          |-> Hasher(merged, cur.hash),
                                        previous_hash |-> cur.hash]],
            uuid, t)

\* ----------------------------------------------------- 4.5 Unit-of-Work
NoScope == [owner |-> NULL, db |-> EmptyDb]

ScopeFree == uow.owner = NULL

Owns(p) == uow.owner = Some(p)

\* begin() that opens a scope whether or not one is open.
Scope_begin_outcome_reentrant(u) == "ok"

\* begin(): a programmer error while a scope is open.
Scope_begin_outcome(u) == IF u.owner # NULL THEN "StorageError" ELSE "ok"

\* begin() -> scope: nothing staged yet on top of the committed storage.
Scope_begin(p) == [owner |-> Some(p), db |-> db]

\* The history grows by every record state a commit makes visible.
ChainAfter(d, read) ==
    [u \in DOMAIN d.record |->
        IF u \notin DOMAIN db.record THEN <<[state |-> d.record[u], read |-> read]>>
        ELSE IF d.record[u] # db.record[u]
        THEN Append(chain[u], [state |-> d.record[u], read |-> read])
        ELSE chain[u]]

\* commit(): the staged storage becomes the committed storage.
Scope_commit(d) ==
    /\ db' = d
    /\ chain' = ChainAfter(d, 0)
    /\ now' = now + 1
    /\ uow' = NoScope

\* rollback(): the staged storage is discarded.
Scope_rollback ==
    /\ uow' = NoScope
    /\ UNCHANGED <<db, chain, now>>

\* A write outside any scope commits on its own; the storage engine lets one
\* writer in at a time.
Autocommit(d, read) ==
    /\ ScopeFree
    /\ db' = d
    /\ chain' = ChainAfter(d, read)
    /\ now' = now + 1
    /\ UNCHANGED uow

\* ------------------------------------------------ reads (joined view)
\* get_by_id of one kind's view: the outcome, and the joined row.
get_by_id_outcome(d, kind, id) ==
    IF InView(d, kind, id.uuid) THEN "ok" ELSE "NotFound"

get_by_id(d, id) ==
    LET e == d.entity[id.uuid]
        r == d.record[id.uuid]
    IN  [uuid          |-> id.uuid,
         kind          |-> e.kind,
         fields        |-> r.fields,
         hash          |-> r.hash,
         previous_hash |-> r.previous_hash,
         version       |-> r.version,
         created_at    |-> e.created_at,
         updated_at    |-> e.updated_at,
         superseded_by |-> e.superseded_by,
         superseded_at |-> e.superseded_at,
         group_id      |-> e.group_id,
         derived_from  |-> e.derived_from]

\* list(kind, include_superseded): the rows of the kind's view, those of
\* superseded entities only on request.  At most MaxIds rows exist, fewer than
\* the default limit of a page.
List_rows(d, kind, include_superseded) ==
    {get_by_id(d, ApiId("", u)) :
        u \in {w \in DOMAIN d.record :
                  /\ InView(d, kind, w)
                  /\ include_superseded \/ ~IsSuperseded(d, w)}}

\* ------------------------------------------------------------ responses
NoResp == [status |-> 0, type |-> "none"]

\* row_to_response with the current hash copied into previous_hash.
row_to_response_same_hash(row) ==
    [uuid          |-> add_core_prefix(row.uuid),
     id            |-> add_core_prefix(row.uuid),
     fields        |-> row.fields,
     hash          |-> row.hash,
     previous_hash |-> row.hash,
     version       |-> row.version,
     created_at    |-> row.created_at,
     updated_at    |-> row.updated_at,
     superseded_by |-> {add_core_prefix(u) : u \in row.superseded_by},
     superseded_at |-> row.superseded_at,
     group_id      |-> {add_core_prefix(u) : u \in row.group_id},
     derived_from  |-> {add_core_prefix(u) : u \in row.derived_from}]

\* row_to_response with superseded_at left out.
row_to_response_no_superseded_at(row) ==
    [uuid          |-> add_core_prefix(row.uuid),
     id            |-> add_core_prefix(row.uuid),
     fields        |-> row.fields,
     hash          |-> row.hash,
     previous_hash |-> row.previous_hash,
     version       |-> row.version,
     created_at    |-> row.created_at,
     updated_at    |-> row.updated_at,
     superseded_by |-> {add_core_prefix(u) : u \in row.superseded_by},
     superseded_at |-> NULL,
     group_id      |-> {add_core_prefix(u) : u \in row.group_id},
     derived_from  |-> {add_core_prefix(u) : u \in row.derived_from}]

\* _row_to_transaction_response: uuids get the core_ prefix, the hash chain
\* fields and the entity metadata are copied.
\* _row_to_recurrence_response: the bare id, no hash chain fields.
row_to_response(row) ==
    IF row.kind = "transactions"
    THEN [uuid          |-> add_core_prefix(row.uuid),
          id            |-> add_core_prefix(row.uuid),
          fields        |-> row.fields,
          hash          |-> row.hash,
          previous_hash |-> row.previous_hash,
          version       |-> row.version,
          created_at    |-> row.created_at,
          updated_at    |-> row.updated_at,
          superseded_by |-> {add_core_prefix(u) : u \in row.superseded_by},
          superseded_at |-> row.superseded_at,
          group_id      |-> {add_core_prefix(u) : u \in row.group_id},
          derived_from  |-> {add_core_prefix(u) : u \in row.derived_from}]
    ELSE [id            |-> ApiId("", row.uuid),
          fields        |-> row.fields,
          created_at    |-> row.created_at,
          updated_at    |-> row.updated_at,
          superseded_by |-> row.superseded_by,
          superseded_at |-> row.superseded_at,
          group_id      |-> row.group_id,
          derived_from  |-> row.derived_from]

RowResponse(status, row) ==
    [status |-> status, type |-> "row", row |-> row_to_response(row)]

\* ConflictResponse(...).model_dump(), status 409.
ConflictResponse(current_hash, current_version, client_hash, client_version) ==
    [status |-> 409, type |-> "conflict",
     conflict |-> [error           |-> "Conflict",
                   current_hash    |-> current_hash,
                   current_version |-> current_version,
                   client_hash     |-> client_hash,
                   client_version  |-> client_version]]

\* The error handlers of main.py: ResourceNotFound is a 404, every other
\* error raised by the core a 500.
ErrorResponse(error) ==
    [status |-> IF error = "NotFound" THEN 404 ELSE 500,
     type |-> "error", error |-> error]

NoContent == [status |-> 204, type |-> "empty"]

\* --------------------------------------------------------------- locals
NoLoc == [op               |-> "",
          kind             |-> "",
          id               |-> ApiId("", UnknownUuid),
          data             |-> <<>>,
          based_on_hash    |-> NoHash,
          based_on_version |-> NULL,
          current_hash     |-> NoHash,
          current_version  |-> 0,
          tombstone_id     |-> UnknownUuid]

Init ==
    /\ db = EmptyDb
    /\ uow = NoScope
    /\ now = 0
    /\ minted = 0
    /\ chain = <<>>
    /\ pc = [p \in Callers |-> "idle"]
    /\ loc = [p \in Callers |-> NoLoc]
    /\ resp = [p \in Callers |-> NoResp]

\* The handler of p ends with response r.
Finish(p, r) ==
    /\ pc' = [pc EXCEPT ![p] = "done"]
    /\ resp' = [resp EXCEPT ![p] = r]

\* The handler of p moves on to label l.
Goto(p, l) ==
    /\ pc' = [pc EXCEPT ![p] = l]
    /\ UNCHANGED resp

\* The ids a client can name: every id minted so far and one unknown id, in
\* the form the responses of that kind show them (transactions with the core_
\* prefix, recurrences bare).
IdArgs(kind) ==
    {ApiId(IF kind = "transactions" THEN "core_" ELSE "", u) : u \in 0..minted}

\* The handlers that have a write ahead of them.
Writers == {p \in Callers : pc[p] \in {"create_exit", "update_write",
                                        "delete_supersede", "delete_exit"}}

\* A request that is going to write starts while the clock leaves room for
\* its commit and for the commits of the writers already under way.
RoomToWrite == now + Cardinality(Writers) < MaxTime

\* A response is handed to the client as soon as it is produced: handlers
\* run while no response is waiting.
Delivered == \A p \in Callers : resp[p] = NoResp

\* ------------------------------------------------------------ POST (create)
\* create_call with the registry row written before the atomic block is
\* entered.
create_call_entity_first(p, kind, data) ==
    /\ RoomToWrite
    /\ minted < MaxIds
    /\ ScopeFree
    /\ db' = Registry_create(db, minted + 1, kind, now)
    /\ uow' = [owner |-> Some(p),
               db    |-> Record_create(db, minted + 1, kind, data, now)]
    /\ minted' = minted + 1
    /\ loc' = [loc EXCEPT ![p] = [NoLoc EXCEPT !.op = "create", !.kind = kind,
                                               !.data = data,
                                               !.id = ApiId("", minted + 1)]]
    /\ Goto(p, "create_exit")
    /\ UNCHANGED <<chain, now>>

\* core.<kind>.create(...) inside a fresh atomic block: the entity and the
\* record are staged together; an I/O failure leaves the block through the
\* error, which rolls it back.
create_call(p, kind, data) ==
    /\ RoomToWrite
    /\ minted < MaxIds
    /\ ScopeFree
    /\ \E io_ok \in BOOLEAN :
          IF io_ok
          THEN /\ uow' = [owner |-> Some(p),
                          db    |-> Record_create(db, minted + 1, kind, data, now)]
               /\ minted' = minted + 1
               /\ loc' = [loc EXCEPT ![p] = [NoLoc EXCEPT !.op = "create", !.kind = kind,
                                                          !.data = data,
                                                          !.id = ApiId("", minted + 1)]]
               /\ Goto(p, "create_exit")
          ELSE /\ Finish(p, ErrorResponse("StorageError"))
               /\ loc' = [loc EXCEPT ![p] = [NoLoc EXCEPT !.op = "create", !.kind = kind]]
               /\ UNCHANGED <<uow, minted>>
    /\ UNCHANGED <<db, chain, now>>

\* create_transaction with the id minted last given out again.
create_transaction_reusing_id(p, data) ==
    LET uuid == IF minted = 0 THEN 1 ELSE minted IN
    /\ pc[p] = "idle"
    /\ RoomToWrite
    /\ ScopeFree
    /\ uow' = [owner |-> Some(p),
               db    |-> Record_create(db, uuid, "transactions", data, now)]
    /\ minted' = uuid
    /\ loc' = [loc EXCEPT ![p] = [NoLoc EXCEPT !.op = "create", !.kind = "transactions",
                                               !.data = data,
                                               !.id = ApiId("", uuid)]]
    /\ Goto(p, "create_exit")
    /\ UNCHANGED <<db, chain, now>>

\* create_transaction: the atomic block around core.transaction.create.
create_transaction(p, data) ==
    /\ pc[p] = "idle"
    /\ create_call(p, "transactions", data)

\* create_exit with only the registry row made durable.
create_exit_entity_only(p) ==
    /\ pc[p] = "create_exit"
    /\ Owns(p)
    /\ db' = Registry_create(db, loc[p].id.uuid, loc[p].kind, now)
    /\ now' = now + 1
    /\ uow' = NoScope
    /\ loc' = [loc EXCEPT ![p] = [NoLoc EXCEPT !.op = "create", !.kind = loc[p].kind,
                                               !.id = loc[p].id]]
    /\ Goto(p, "create_fetch")
    /\ UNCHANGED <<minted, chain>>

\* Leaving the atomic block commits.
create_exit(p) ==
    /\ pc[p] = "create_exit"
    /\ Owns(p)
    /\ Scope_commit(uow.db)
    /\ loc' = [loc EXCEPT ![p] = [NoLoc EXCEPT !.op = "create", !.kind = loc[p].kind,
                                               !.id = loc[p].id]]
    /\ Goto(p, "create_fetch")
    /\ UNCHANGED minted

\* The created row is fetched with a fresh core and returned with 201.
create_fetch(p) ==
    /\ pc[p] = "create_fetch"
    /\ IF get_by_id_outcome(db, loc[p].kind, loc[p].id) = "ok"
       THEN Finish(p, RowResponse(201, get_by_id(db, loc[p].id)))
       ELSE Finish(p, ErrorResponse("NotFound"))
    /\ UNCHANGED <<db, uow, now, minted, chain, loc>>

\* --------------------------------------------------------------- GET (one)
\* get_transaction / get_recurrence.
get_handler(p, kind, id) ==
    /\ pc[p] = "idle"
    /\ IF get_by_id_outcome(db, kind, id) = "ok"
       THEN Finish(p, RowResponse(200, get_by_id(db, id)))
       ELSE Finish(p, ErrorResponse("NotFound"))
    /\ loc' = [loc EXCEPT ![p] = [NoLoc EXCEPT !.op = "get", !.kind = kind, !.id = id]]
    /\ UNCHANGED <<db, uow, now, minted, chain>>

\* --------------------------------------------------------------- GET (list)
\* The values of the include_superseded query parameter a client sends: none,
\* or a spelling of true or false.
IncludeArgs == {NULL, Some("True"), Some("false")}

\* str.lower() on those spellings.
lower(str) == IF str = "True" THEN "true" ELSE str

\* request.args.get("include_superseded", "false").lower() == "true"
parse_include_superseded(arg) ==
    \E str \in (IF arg = NULL THEN {"false"} ELSE arg) : lower(str) = "true"

\* list_transactions with superseded rows listed whatever the request says.
list_handler_unfiltered(p, kind, arg) ==
    /\ pc[p] = "idle"
    /\ Finish(p, [status |-> 200, type |-> "rows",
                  rows |-> {row_to_response(r) : r \in List_rows(db, kind, TRUE)}])
    /\ loc' = [loc EXCEPT ![p] =
                  [NoLoc EXCEPT !.op = "list", !.kind = kind,
                                !.data = [include_superseded |->
                                              parse_include_superseded(arg)]]]
    /\ UNCHANGED <<db, uow, now, minted, chain>>

\* list_transactions / list_recurrences: parse the query, list with the
\* filters, convert every row.
list_handler(p, kind, arg) ==
    LET include_superseded == parse_include_superseded(arg)
        filters == [include_superseded |-> include_superseded]
        rows    == List_rows(db, kind, filters.include_superseded)
    IN  /\ pc[p] = "idle"
        /\ Finish(p, [status |-> 200, type |-> "rows",
                      rows |-> {row_to_response(r) : r \in rows}])
        /\ loc' = [loc EXCEPT ![p] = [NoLoc EXCEPT !.op = "list", !.kind = kind,
                                                   !.data = filters]]
        /\ UNCHANGED <<db, uow, now, minted, chain>>

\* ------------------------------------------------------------ PUT (update)
\* A hash no record ever has.
BogusHash == <<"deadbeef">>

\* The preconditions a client can send for the record uuid: no hash, a hash
\* some version of the record had, or a bogus one; no version, 0, or a version
\* the record had.
HashArgs(uuid) ==
    {NoHash, BogusHash}
        \cup (IF uuid \in DOMAIN chain
              THEN {chain[uuid][k].state.hash : k \in 1..Len(chain[uuid])} ELSE {})

VersionArgs(uuid) ==
    {NULL} \cup {Some(v) : v \in 0..(IF uuid \in DOMAIN chain THEN Len(chain[uuid]) ELSE 0)}

\* update_transaction with the write issued for an empty update_data too.
update_transaction_always_writes(p, id, data, based_on_hash, based_on_version) ==
    LET transaction_id == strip_prefix(id)
        target == [NoLoc EXCEPT !.op = "update", !.kind = "transactions",
                                !.id = transaction_id]
    IN
    /\ pc[p] = "idle"
    /\ get_by_id_outcome(db, "transactions", transaction_id) = "ok"
    /\ based_on_hash \in {NoHash, get_by_id(db, transaction_id).hash}
    /\ based_on_version \in {NULL, Some(get_by_id(db, transaction_id).version)}
    /\ RoomToWrite
    /\ loc' = [loc EXCEPT ![p] =
                  [target EXCEPT !.data = data,
                                 !.current_hash = get_by_id(db, transaction_id).hash,
                                 !.current_version = get_by_id(db, transaction_id).version]]
    /\ Goto(p, "update_write")
    /\ UNCHANGED <<db, uow, now, minted, chain>>

\* update_transaction with based_on_hash not compared.
update_transaction_hash_unchecked(p, id, data, based_on_hash, based_on_version) ==
    LET transaction_id == strip_prefix(id)
        target == [NoLoc EXCEPT !.op = "update", !.kind = "transactions",
                                !.id = transaction_id]
    IN
    /\ pc[p] = "idle"
    /\ get_by_id_outcome(db, "transactions", transaction_id) = "ok"
    /\ based_on_version \in {NULL, Some(get_by_id(db, transaction_id).version)}
    /\ DOMAIN data # {}
    /\ RoomToWrite
    /\ loc' = [loc EXCEPT ![p] =
                  [target EXCEPT !.data = data,
                                 !.current_hash = get_by_id(db, transaction_id).hash,
                                 !.current_version = get_by_id(db, transaction_id).version]]
    /\ Goto(p, "update_write")
    /\ UNCHANGED <<db, uow, now, minted, chain>>

\* update_transaction with based_on_version tested for truth, as based_on_hash
\* is: version 0 counts as not given.
update_transaction_falsy_version(p, id, data, based_on_hash, based_on_version) ==
    LET transaction_id == strip_prefix(id)
        target == [NoLoc EXCEPT !.op = "update", !.kind = "transactions",
                                !.id = transaction_id]
    IN
    /\ pc[p] = "idle"
    /\ get_by_id_outcome(db, "transactions", transaction_id) = "ok"
    /\ based_on_hash \in {NoHash, get_by_id(db, transaction_id).hash}
    /\ based_on_version \in {NULL, Some(0), Some(get_by_id(db, transaction_id).version)}
    /\ DOMAIN data # {}
    /\ RoomToWrite
    /\ loc' = [loc EXCEPT ![p] =
                  [target EXCEPT !.data = data,
                                 !.current_hash = get_by_id(db, transaction_id).hash,
                                 !.current_version = get_by_id(db, transaction_id).version]]
    /\ Goto(p, "update_write")
    /\ UNCHANGED <<db, uow, now, minted, chain>>

\* update_transaction with based_on_version compared before based_on_hash.
update_transaction_version_first(p, id, data, based_on_hash, based_on_version) ==
    LET transaction_id == strip_prefix(id)
        target  == [NoLoc EXCEPT !.op = "update", !.kind = "transactions",
                                 !.id = transaction_id]
        request == [target EXCEPT !.based_on_hash = based_on_hash,
                                  !.based_on_version = based_on_version]
    IN
    /\ pc[p] = "idle"
    /\ IF get_by_id_outcome(db, "transactions", transaction_id) # "ok"
       THEN /\ Finish(p, ErrorResponse("NotFound"))
            /\ loc' = [loc EXCEPT ![p] = target]
       ELSE LET current_row     == get_by_id(db, transaction_id)
                current_hash    == current_row.hash
                current_version == current_row.version
                read == [request EXCEPT !.current_hash = current_hash,
                                        !.current_version = current_version]
            IN  IF based_on_version # NULL /\ based_on_version # Some(current_version)
                THEN /\ Finish(p, ConflictResponse(current_hash, current_version,
                                                   NoHash, based_on_version))
                     /\ loc' = [loc EXCEPT ![p] = read]
                ELSE IF based_on_hash # NoHash /\ based_on_hash # current_hash
                THEN /\ Finish(p, ConflictResponse(current_hash, current_version,
                                                   based_on_hash, NULL))
                     /\ loc' = [loc EXCEPT ![p] = read]
                ELSE IF DOMAIN data # {}
                THEN /\ RoomToWrite
                     /\ loc' = [loc EXCEPT ![p] =
                                   [target EXCEPT !.data = data,
                                                  !.current_hash = current_hash,
                                                  !.current_version = current_version]]
                     /\ Goto(p, "update_write")
                ELSE /\ loc' = [loc EXCEPT ![p] = target]
                     /\ Goto(p, "update_fetch")
    /\ UNCHANGED <<db, uow, now, minted, chain>>

\* update_transaction up to the write: strip the prefix, read the current
\* row, compare based_on_hash and based_on_version with it, build update_data.
update_transaction(p, id, data, based_on_hash, based_on_version) ==
    LET transaction_id == strip_prefix(id)
        target  == [NoLoc EXCEPT !.op = "update", !.kind = "transactions",
                                 !.id = transaction_id]
        request == [target EXCEPT !.based_on_hash = based_on_hash,
                                  !.based_on_version = based_on_version]
    IN
    /\ pc[p] = "idle"
    /\ IF get_by_id_outcome(db, "transactions", transaction_id) # "ok"
       THEN /\ Finish(p, ErrorResponse("NotFound"))
            /\ loc' = [loc EXCEPT ![p] = target]
       ELSE LET current_row     == get_by_id(db, transaction_id)
                current_hash    == current_row.hash
                current_version == current_row.version
                read == [request EXCEPT !.current_hash = current_hash,
                                        !.current_version = current_version]
                update_data == data
            IN  IF based_on_hash # NoHash /\ based_on_hash # current_hash
                THEN /\ Finish(p, ConflictResponse(current_hash, current_version,
                                                   based_on_hash, NULL))
                     /\ loc' = [loc EXCEPT ![p] = read]
                ELSE IF based_on_version # NULL /\ based_on_version # Some(current_version)
                THEN /\ Finish(p, ConflictResponse(current_hash, current_version,
                                                   NoHash, based_on_version))
                     /\ loc' = [loc EXCEPT ![p] = read]
                ELSE IF DOMAIN update_data # {}
                THEN /\ RoomToWrite
                     /\ loc' = [loc EXCEPT ![p] =
                                   [target EXCEPT !.data = update_data,
                                                  !.current_hash = current_hash,
                                                  !.current_version = current_version]]
                     /\ Goto(p, "update_write")
                ELSE /\ loc' = [loc EXCEPT ![p] = target]
                     /\ Goto(p, "update_fetch")
    /\ UNCHANGED <<db, uow, now, minted, chain>>

\* update_write with the write issued whatever the entity's supersession state.
update_write_unguarded(p) ==
    LET uuid == loc[p].id.uuid
    IN  /\ pc[p] = "update_write"
        /\ IF InView(db, loc[p].kind, uuid)
           THEN /\ now < MaxTime
                /\ Autocommit(Record_update(db, uuid, loc[p].data, now),
                              loc[p].current_version)
                /\ loc' = [loc EXCEPT ![p] = [NoLoc EXCEPT !.op = "update",
                                                           !.kind = loc[p].kind,
                                                           !.id = loc[p].id]]
                /\ Goto(p, "update_fetch")
           ELSE /\ Finish(p, ErrorResponse("NotFound"))
                /\ UNCHANGED <<db, uow, now, chain, loc>>
        /\ UNCHANGED minted

\* update_write with the fields the body does not name put back to 0.
update_write_replaces(p) ==
    LET uuid == loc[p].id.uuid
        data == loc[p].data
    IN  /\ pc[p] = "update_write"
        /\ Record_update_outcome(db, loc[p].kind, uuid) = "ok"
        /\ now < MaxTime
        /\ Autocommit([Record_update(db, uuid, data, now) EXCEPT
                          !.record[uuid].fields =
                              [f \in Fields |-> IF f \in DOMAIN data THEN data[f] ELSE 0]],
                      loc[p].current_version)
        /\ loc' = [loc EXCEPT ![p] = [NoLoc EXCEPT !.op = "update",
                                                   !.kind = loc[p].kind,
                                                   !.id = loc[p].id]]
        /\ Goto(p, "update_fetch")
        /\ UNCHANGED minted

\* update_write with the registry row left as it is.
update_write_untouched(p) ==
    LET uuid == loc[p].id.uuid
    IN  /\ pc[p] = "update_write"
        /\ Record_update_outcome(db, loc[p].kind, uuid) = "ok"
        /\ now < MaxTime
        /\ Autocommit([Record_update(db, uuid, loc[p].data, now) EXCEPT
                          !.entity = db.entity],
                      loc[p].current_version)
        /\ loc' = [loc EXCEPT ![p] = [NoLoc EXCEPT !.op = "update",
                                                   !.kind = loc[p].kind,
                                                   !.id = loc[p].id]]
        /\ Goto(p, "update_fetch")
        /\ UNCHANGED minted

\* core.<kind>.update(id, update_data): the record store's update with no
\* precondition, committed on its own.
update_write(p) ==
    LET uuid    == loc[p].id.uuid
        outcome == Record_update_outcome(db, loc[p].kind, uuid)
    IN  /\ pc[p] = "update_write"
        /\ IF outcome = "ok"
           THEN /\ now < MaxTime
                /\ Autocommit(Record_update(db, uuid, loc[p].data, now),
                              loc[p].current_version)
                /\ loc' = [loc EXCEPT ![p] = [NoLoc EXCEPT !.op = "update",
                                                           !.kind = loc[p].kind,
                                                           !.id = loc[p].id]]
                /\ Goto(p, "update_fetch")
           ELSE /\ Finish(p, ErrorResponse(outcome))
                /\ UNCHANGED <<db, uow, now, chain, loc>>
        /\ UNCHANGED minted

\* The updated row is fetched and returned with 200.
update_fetch(p) ==
    /\ pc[p] = "update_fetch"
    /\ IF get_by_id_outcome(db, loc[p].kind, loc[p].id) = "ok"
       THEN Finish(p, RowResponse(200, get_by_id(db, loc[p].id)))
       ELSE Finish(p, ErrorResponse("NotFound"))
    /\ UNCHANGED <<db, uow, now, minted, chain, loc>>

\* ---------------------------------------------------------- DELETE (delete)
\* delete_handler with the target's own id taken for the tombstone.
delete_handler_own_id(p, kind, id) ==
    LET target == IF kind = "transactions" THEN strip_prefix(id) ELSE id IN
    /\ pc[p] = "idle"
    /\ ScopeFree
    /\ get_by_id_outcome(db, kind, target) = "ok"
    /\ RoomToWrite
    /\ uow' = [owner |-> Some(p), db |-> db]
    /\ loc' = [loc EXCEPT ![p] = [NoLoc EXCEPT !.op = "delete", !.kind = kind,
                                               !.id = target,
                                               !.tombstone_id = target.uuid]]
    /\ Goto(p, "delete_supersede")
    /\ UNCHANGED <<db, now, chain, minted>>

\* delete_handler with the tombstone created outside the atomic block.
delete_handler_unscoped(p, kind, id) ==
    LET target == IF kind = "transactions" THEN strip_prefix(id) ELSE id IN
    /\ pc[p] = "idle"
    /\ ScopeFree
    /\ get_by_id_outcome(db, kind, target) = "ok"
    /\ RoomToWrite
    /\ minted < MaxIds
    /\ db' = Registry_create(db, minted + 1, kind, now)
    /\ uow' = [owner |-> Some(p), db |-> db']
    /\ minted' = minted + 1
    /\ loc' = [loc EXCEPT ![p] = [NoLoc EXCEPT !.op = "delete", !.kind = kind,
                                               !.id = target,
                                               !.tombstone_id = minted + 1]]
    /\ Goto(p, "delete_supersede")
    /\ UNCHANGED <<now, chain>>

\* delete_handler with the tombstone entity created before the row is looked
\* up.
delete_handler_tombstone_first(p, kind, id) ==
    LET target == IF kind = "transactions" THEN strip_prefix(id) ELSE id IN
    /\ pc[p] = "idle"
    /\ ScopeFree
    /\ minted < MaxIds
    /\ minted' = minted + 1
    /\ IF get_by_id_outcome(db, kind, target) = "ok"
       THEN /\ RoomToWrite
            /\ uow' = [owner |-> Some(p),
                       db    |-> Registry_create(db, minted + 1, kind, now)]
            /\ loc' = [loc EXCEPT ![p] = [NoLoc EXCEPT !.op = "delete", !.kind = kind,
                                                       !.id = target,
                                                       !.tombstone_id = minted + 1]]
            /\ Goto(p, "delete_supersede")
            /\ UNCHANGED db
       ELSE /\ Finish(p, ErrorResponse("NotFound"))
            /\ db' = Registry_create(db, minted + 1, kind, now)
            /\ loc' = [loc EXCEPT ![p] = [NoLoc EXCEPT !.op = "delete", !.kind = kind,
                                                       !.id = target]]
            /\ UNCHANGED uow
    /\ UNCHANGED <<now, chain>>

\* delete_handler with the target looked up in the registry alone.
delete_handler_any_entity(p, kind, id) ==
    LET target == IF kind = "transactions" THEN strip_prefix(id) ELSE id IN
    /\ pc[p] = "idle"
    /\ ScopeFree
    /\ IF Exists(db, target.uuid)
       THEN /\ RoomToWrite
            /\ minted < MaxIds
            /\ uow' = [owner |-> Some(p),
                       db    |-> Registry_create(db, minted + 1, kind, now)]
            /\ minted' = minted + 1
            /\ loc' = [loc EXCEPT ![p] = [NoLoc EXCEPT !.op = "delete", !.kind = kind,
                                                       !.id = target,
                                                       !.tombstone_id = minted + 1]]
            /\ Goto(p, "delete_supersede")
       ELSE /\ Finish(p, ErrorResponse("NotFound"))
            /\ loc' = [loc EXCEPT ![p] = [NoLoc EXCEPT !.op = "delete", !.kind = kind,
                                                       !.id = target]]
            /\ UNCHANGED <<uow, minted>>
    /\ UNCHANGED <<db, now, chain>>

\* delete_transaction / delete_recurrence up to the supersede call: enter the
\* atomic block, verify that the row exists (a missing row leaves the block
\* through the error), stage the tombstone entity.  delete_transaction strips
\* the prefix first.
delete_handler(p, kind, id) ==
    LET target == IF kind = "transactions" THEN strip_prefix(id) ELSE id IN
    /\ pc[p] = "idle"
    /\ ScopeFree
    /\ IF get_by_id_outcome(db, kind, target) = "ok"
       THEN /\ RoomToWrite
            /\ minted < MaxIds
            /\ uow' = [owner |-> Some(p),
                       db    |-> Registry_create(db, minted + 1, kind, now)]
            /\ minted' = minted + 1
            /\ loc' = [loc EXCEPT ![p] = [NoLoc EXCEPT !.op = "delete", !.kind = kind,
                                                       !.id = target,
                                                       !.tombstone_id = minted + 1]]
            /\ Goto(p, "delete_supersede")
       ELSE /\ Finish(p, ErrorResponse("NotFound"))
            /\ loc' = [loc EXCEPT ![p] = [NoLoc EXCEPT !.op = "delete", !.kind = kind,
                                                       !.id = target]]
            /\ UNCHANGED <<uow, minted>>
    /\ UNCHANGED <<db, now, chain>>

\* delete_supersede with the target's updated_at stamped as well.
delete_supersede_touching(p) ==
    LET target == loc[p].id.uuid
    IN  /\ pc[p] = "delete_supersede"
        /\ Owns(p)
        /\ Registry_supersede_outcome(uow.db, target, loc[p].tombstone_id) = "ok"
        /\ uow' = [uow EXCEPT !.db = Registry_touch(
                                         Registry_supersede(uow.db, target,
                                                            loc[p].tombstone_id, now),
                                         target, now + 1)]
        /\ Goto(p, "delete_exit")
        /\ UNCHANGED <<db, chain, now, minted, loc>>

\* delete_supersede with the supersede written whatever the target's state.
delete_supersede_forced(p) ==
    LET target == loc[p].id.uuid
    IN  /\ pc[p] = "delete_supersede"
        /\ Owns(p)
        /\ uow' = [uow EXCEPT !.db = Registry_supersede(uow.db, target,
                                                        loc[p].tombstone_id, now)]
        /\ Goto(p, "delete_exit")
        /\ UNCHANGED <<db, chain, now, minted, loc>>

\* core.entity.supersede(id, tombstone_id): staged, or the block is left
\* through the error (AlreadySuperseded, or an I/O failure of the write) and
\* rolled back.
delete_supersede(p) ==
    LET target  == loc[p].id.uuid
        outcome == Registry_supersede_outcome(uow.db, target, loc[p].tombstone_id)
    IN  /\ pc[p] = "delete_supersede"
        /\ Owns(p)
        /\ \E io_ok \in BOOLEAN :
              IF io_ok /\ outcome = "ok"
              THEN /\ uow' = [uow EXCEPT !.db = Registry_supersede(uow.db, target,
                                                       loc[p].tombstone_id, now)]
                   /\ Goto(p, "delete_exit")
                   /\ UNCHANGED <<db, chain, now>>
              ELSE /\ Scope_rollback
                   /\ Finish(p, ErrorResponse(IF outcome # "ok" THEN outcome
                                              ELSE "StorageError"))
        /\ UNCHANGED <<minted, loc>>

\* Leaving the atomic block commits; the handler answers 204.
delete_exit(p) ==
    /\ pc[p] = "delete_exit"
    /\ Owns(p)
    /\ Scope_commit(uow.db)
    /\ Finish(p, NoContent)
    /\ UNCHANGED <<minted, loc>>

\* -------------------------------------------------------------- recurrences
\* Business fields of a recurrence row that the model tracks: the rule and the
\* validity window (valid_until is nullable).
RecurrenceFields == {"rrule", "valid_from", "valid_until"}

\* The rules a client sends: two well-formed ones and one that is not.
RRules == {"FREQ=DAILY", "FREQ=WEEKLY", "bogus"}

\* recurrence.validate_rrule: whether the string is a well-formed RRULE.
validate_rrule(rrule) == rrule \in {"FREQ=DAILY", "FREQ=WEEKLY"}

\* recurrence.is_valid_recurrence_window: an open window, or valid_from before
\* valid_until.
is_valid_recurrence_window(valid_from, valid_until) ==
    \A t \in valid_until : valid_from < t

\* jsonify({"error": ...}), 400.
ValidationResponse(error) == [status |-> 400, type |-> "invalid", error |-> error]

\* create_recurrence: validate the rule and the window, then the atomic block
\* around core.recurrence.create.
create_recurrence(p, data) ==
    LET target == [NoLoc EXCEPT !.op = "create", !.kind = "recurrences"] IN
    /\ pc[p] = "idle"
    /\ IF ~validate_rrule(data["rrule"])
       THEN /\ Finish(p, ValidationResponse("Invalid RRULE format"))
            /\ loc' = [loc EXCEPT ![p] = target]
            /\ UNCHANGED <<db, uow, now, minted, chain>>
       ELSE IF ~is_valid_recurrence_window(data["valid_from"], data["valid_until"])
       THEN /\ Finish(p, ValidationResponse("Invalid recurrence window"))
            /\ loc' = [loc EXCEPT ![p] = target]
            /\ UNCHANGED <<db, uow, now, minted, chain>>
       ELSE create_call(p, "recurrences", data)

\* update_recurrence up to the write.  RecurrenceUpdate declares rrule,
\* entities, valid_from and valid_until only: a based_on_hash or
\* based_on_version in the request body is dropped when the body is parsed,
\* and the handler compares nothing with the current row.
update_recurrence(p, id, data, based_on_hash, based_on_version) ==
    LET recurrence_id == id
        target == [NoLoc EXCEPT !.op = "update", !.kind = "recurrences",
                                !.id = recurrence_id]
    IN
    /\ pc[p] = "idle"
    /\ IF get_by_id_outcome(db, "recurrences", recurrence_id) # "ok"
       THEN /\ Finish(p, ErrorResponse("NotFound"))
            /\ loc' = [loc EXCEPT ![p] = target]
       ELSE IF "rrule" \in DOMAIN data /\ ~validate_rrule(data["rrule"])
       THEN /\ Finish(p, ValidationResponse("Invalid RRULE format"))
            /\ loc' = [loc EXCEPT ![p] = target]
       ELSE LET update_data == data
                row == get_by_id(db, recurrence_id)
                new_valid_from  == IF "valid_from" \in DOMAIN update_data
                                   THEN update_data["valid_from"]
                                   ELSE row.fields["valid_from"]
                new_valid_until == IF "valid_until" \in DOMAIN update_data
                                   THEN update_data["valid_until"]
                                   ELSE row.fields["valid_until"]
            IN  IF DOMAIN update_data # {}
                THEN IF ~is_valid_recurrence_window(new_valid_from, new_valid_until)
                     THEN /\ Finish(p, ValidationResponse("Invalid recurrence window"))
                          /\ loc' = [loc EXCEPT ![p] = target]
                     ELSE /\ RoomToWrite
                          /\ loc' = [loc EXCEPT ![p] =
                                        [target EXCEPT !.data = update_data,
                                                       !.current_hash = row.hash,
                                                       !.current_version = row.version]]
                          /\ Goto(p, "update_write")
                ELSE /\ loc' = [loc EXCEPT ![p] = target]
                     /\ Goto(p, "update_fetch")
    /\ UNCHANGED <<db, uow, now, minted, chain>>

\* ---------------------------------------------------------------- clients
\* The client takes its response; the worker is free for the next request.
Return(p) ==
    /\ resp[p] # NoResp
    /\ pc' = [pc EXCEPT ![p] = "idle"]
    /\ resp' = [resp EXCEPT ![p] = NoResp]
    /\ loc' = [loc EXCEPT ![p] = NoLoc]
    /\ UNCHANGED <<db, uow, now, minted, chain>>

\* Whether the precondition (h, v) passes against the committed row of uuid.
Passes(uuid, h, v) ==
    /\ InView(db, "transactions", uuid)
    /\ h \in {NoHash, db.record[uuid].hash}
    /\ v \in {NULL, Some(db.record[uuid].version)}

\* The bodies tried with a precondition. Records are created with 0 in every
\* field: when the precondition passes, the empty body, every body that sets
\* fields to 1, and one that sets a field back to 0; when it does not (the
\* body is not looked at then), one body that would change the record.
BodyArgs(uuid, h, v) ==
    IF Passes(uuid, h, v)
    THEN {b \in UpdateData : (\A f \in DOMAIN b : b[f] = 1) \/ DOMAIN b = {"amount"}}
    ELSE {b \in UpdateData : DOMAIN b = {"amount"} /\ b["amount"] = 1}

\* Inputs of the requests.
CreateStart(p) == \E data \in [Fields -> {0}] : create_transaction(p, data)

ListStart(p) == \E arg \in IncludeArgs : list_handler(p, "transactions", arg)

GetStart(p) == \E id \in IdArgs("transactions") : get_handler(p, "transactions", id)

UpdateStart(p) ==
    \E id \in IdArgs("transactions") :
        \E h \in HashArgs(id.uuid), v \in VersionArgs(id.uuid) :
            \E data \in BodyArgs(id.uuid, h, v) :
                update_transaction(p, id, data, h, v)

DeleteStart(p) == \E id \in IdArgs("transactions") : delete_handler(p, "transactions", id)

\* Two clients, transactions only: a step of a handler (while no response
\* is waiting), or the receipt of a response.
Next ==
    \/ \E p \in Callers : Delivered /\ CreateStart(p)
    \/ \E p \in Callers : Delivered /\ create_exit(p)
    \/ \E p \in Callers : Delivered /\ create_fetch(p)
    \/ \E p \in Callers : Delivered /\ GetStart(p)
    \/ \E p \in Callers : Delivered /\ ListStart(p)
    \/ \E p \in Callers : Delivered /\ UpdateStart(p)
    \/ \E p \in Callers : Delivered /\ update_write(p)
    \/ \E p \in Callers : Delivered /\ update_fetch(p)
    \/ \E p \in Callers : Delivered /\ DeleteStart(p)
    \/ \E p \in Callers : Delivered /\ delete_supersede(p)
    \/ \E p \in Callers : Delivered /\ delete_exit(p)
    \/ \E p \in Callers : Return(p)

Spec == Init /\ [][Next]_vars

\* The bodies of the recurrence requests: a create that passes validation, one
\* with a malformed rule and one with an empty window; updates that set
\* nothing, the rule, a malformed rule, or a bound of the window.
RecurrenceCreateArgs ==
    {[rrule |-> r, valid_from |-> f, valid_until |-> Some(2)] :
        r \in {"FREQ=DAILY", "bogus"}, f \in {1, 2}}

RecurrenceUpdateArgs ==
    {<<>>, "rrule" :> "FREQ=WEEKLY", "rrule" :> "bogus",
     "valid_from" :> 2, "valid_until" :> NULL}

CreateRecurrenceStart(p) == \E data \in RecurrenceCreateArgs : create_recurrence(p, data)

ListRecurrencesStart(p) == \E arg \in IncludeArgs : list_handler(p, "recurrences", arg)

GetRecurrenceStart(p) == \E id \in IdArgs("recurrences") : get_handler(p, "recurrences", id)

UpdateRecurrenceStart(p) ==
    \E id \in IdArgs("recurrences") :
        \E h \in HashArgs(id.uuid), v \in VersionArgs(id.uuid) :
            \E data \in RecurrenceUpdateArgs :
                update_recurrence(p, id, data, h, v)

DeleteRecurrenceStart(p) ==
    \E id \in IdArgs("recurrences") : delete_handler(p, "recurrences", id)

\* Two clients, recurrences only.
NextRecurrences ==
    \/ \E p \in Callers : Delivered /\ CreateRecurrenceStart(p)
    \/ \E p \in Callers : Delivered /\ create_exit(p)
    \/ \E p \in Callers : Delivered /\ create_fetch(p)
    \/ \E p \in Callers : Delivered /\ GetRecurrenceStart(p)
    \/ \E p \in Callers : Delivered /\ ListRecurrencesStart(p)
    \/ \E p \in Callers : Delivered /\ UpdateRecurrenceStart(p)
    \/ \E p \in Callers : Delivered /\ update_write(p)
    \/ \E p \in Callers : Delivered /\ update_fetch(p)
    \/ \E p \in Callers : Delivered /\ DeleteRecurrenceStart(p)
    \/ \E p \in Callers : Delivered /\ delete_supersede(p)
    \/ \E p \in Callers : Delivered /\ delete_exit(p)
    \/ \E p \in Callers : Return(p)

SpecRecurrences == Init /\ [][NextRecurrences]_vars

\* The predecessor hashes tried: none, one no record has, one a record has.
PreviousArgs == {NoHash, BogusHash, Hasher([f \in Fields |-> 0], NoHash)}

\* A caller has a listing hashed; the digest is what it gets back.
hash_call(p) ==
    /\ pc[p] = "idle"
    /\ \E listing \in Listings, previous_hash \in PreviousArgs :
          /\ loc' = [loc EXCEPT ![p] = [NoLoc EXCEPT !.op = "hash",
                                                     !.data = listing,
                                                     !.based_on_hash = previous_hash]]
          /\ Finish(p, [status |-> 200, type |-> "digest",
                        digest |-> hash(listing, previous_hash)])
    /\ UNCHANGED <<db, uow, now, minted, chain>>

\* The Hasher alone: callers hash listings, each at its own time.
NextHasher ==
    \/ \E p \in Callers : hash_call(p)
    \/ \E p \in Callers : Return(p)

SpecHasher == Init /\ [][NextHasher]_vars

\* ------------------------------------------- the unit-of-work used directly
\* Code that drives one core by hand: begin, writes through the scope,
\* commit or rollback, in any order the programmer happens to write.
begin_call(p) ==
    /\ pc[p] = "idle"
    /\ loc' = [loc EXCEPT ![p] = [NoLoc EXCEPT !.op = "begin"]]
    /\ IF Scope_begin_outcome(uow) = "ok"
       THEN /\ uow' = Scope_begin(p)
            /\ UNCHANGED <<pc, resp>>
       ELSE /\ Finish(p, ErrorResponse("StorageError"))
            /\ UNCHANGED uow
    /\ UNCHANGED <<db, now, minted, chain>>

\* A create through the open scope.
stage_call(p) ==
    /\ pc[p] = "idle"
    /\ Owns(p)
    /\ minted < MaxIds
    /\ uow' = [uow EXCEPT !.db = Record_create(uow.db, minted + 1, "transactions",
                                               [f \in Fields |-> 0], now)]
    /\ minted' = minted + 1
    /\ loc' = [loc EXCEPT ![p] = [NoLoc EXCEPT !.op = "stage"]]
    /\ UNCHANGED <<db, now, chain, pc, resp>>

commit_call(p) ==
    /\ pc[p] = "idle"
    /\ Owns(p)
    /\ now < MaxTime
    /\ Scope_commit(uow.db)
    /\ loc' = [loc EXCEPT ![p] = [NoLoc EXCEPT !.op = "commit"]]
    /\ UNCHANGED <<minted, pc, resp>>

rollback_call(p) ==
    /\ pc[p] = "idle"
    /\ Owns(p)
    /\ Scope_rollback
    /\ loc' = [loc EXCEPT ![p] = [NoLoc EXCEPT !.op = "rollback"]]
    /\ UNCHANGED <<minted, pc, resp>>

NextScope ==
    \/ \E p \in Callers : begin_call(p)
    \/ \E p \in Callers : stage_call(p)
    \/ \E p \in Callers : commit_call(p)
    \/ \E p \in Callers : rollback_call(p)
    \/ \E p \in Callers : Return(p)

SpecScope == Init /\ [][NextScope]_vars

\* ------------------------------------------------------- admin registration
\* The usernames the registration requests carry.
Usernames == {"admin", "root"}

\* The storage with the users table beside the registry.
InitAdmin ==
    /\ db = [entity |-> <<>>, record |-> <<>>, users |-> <<>>]
    /\ uow = NoScope
    /\ now = 0
    /\ minted = 0
    /\ chain = <<>>
    /\ pc = [p \in Callers |-> "idle"]
    /\ loc = [p \in Callers |-> NoLoc]
    /\ resp = [p \in Callers |-> NoResp]

\* service.has_admin_user: SELECT COUNT(*) FROM users WHERE is_admin = 1 > 0.
has_admin_user(d) == \E u \in DOMAIN d.users : d.users[u].is_admin

\* The AuthenticationError handler of main.py: 401.
AuthenticationError(message) == [status |-> 401, type |-> "error", error |-> message]

\* The registrations that have passed the first_time_only check and have
\* their commit ahead.
Registering == {p \in Callers : pc[p] \in {"register_create", "register_commit"}}

\* POST /admin/register up to the handler body: first_time_only looks for an
\* admin and turns the request away if there is one.
admin_register(p, username) ==
    /\ pc[p] = "idle"
    /\ loc' = [loc EXCEPT ![p] = [NoLoc EXCEPT !.op = "register", !.kind = "users",
                                               !.data = username]]
    /\ IF has_admin_user(db)
       THEN Finish(p, AuthenticationError("Setup has already been completed"))
       ELSE /\ now + Cardinality(Registering) < MaxTime
            /\ minted + Cardinality(Registering) < MaxIds
            /\ Goto(p, "register_create")
    /\ UNCHANGED <<db, uow, now, minted, chain>>

\* service.create_user: a fresh id, the entity row, then the users row, in
\* the connection's open transaction (one connection writes at a time).  A
\* username that is taken fails the second insert with IntegrityError: the
\* handler raises AuthenticationError and nothing is committed.
register_create(p) ==
    LET user_id  == minted + 1
        username == loc[p].data
    IN  /\ pc[p] = "register_create"
        /\ ScopeFree
        /\ minted' = user_id
        /\ IF \E u \in DOMAIN db.users : db.users[u].username = username
           THEN /\ Finish(p, AuthenticationError("Username already exists"))
                /\ UNCHANGED <<uow, loc>>
           ELSE /\ uow' = [owner |-> Some(p),
                           db |-> [Registry_create(db, user_id, "users", now)
                                     EXCEPT !.users = (user_id :> [username |-> username,
                                                                   is_admin |-> TRUE,
                                                                   created_at |-> now]) @@ @]]
                /\ loc' = [loc EXCEPT ![p].id = ApiId("", user_id)]
                /\ Goto(p, "register_commit")
        /\ UNCHANGED <<db, now, chain>>

\* core._conn.commit(), then 201 with the user.
register_commit(p) ==
    /\ pc[p] = "register_commit"
    /\ Owns(p)
    /\ Scope_commit(uow.db)
    /\ Finish(p, [status |-> 201, type |-> "user",
                  user |-> [id |-> loc[p].id, username |-> loc[p].data, is_admin |-> TRUE]])
    /\ UNCHANGED <<minted, loc>>

NextAdmin ==
    \/ \E p \in Callers : \E username \in Usernames : admin_register(p, username)
    \/ \E p \in Callers : register_create(p)
    \/ \E p \in Callers : register_commit(p)
    \/ \E p \in Callers : Return(p)

SpecAdmin == InitAdmin /\ [][NextAdmin]_vars

\* ------------------------------------------------------------- email import
\* EmailImporter (soil/email_importer.py and mbox_importer/import_mbox.py).
\* One importer runs on one Soil store; the calls come one after the other.
\* Here db is the Soil store ([impl, items: uuid -> item data, relations: the
\* relations in the order created]), chain is the importer object
\* ([email_index, stats]), loc[Importer].data the email of the last call,
\* resp[Importer] what the call returned, minted the number of item uuids
\* given out and now the number of calls made.
Importer == "c1"

\* The two classes: they differ in import_email only.
Impls == {"soil", "mbox_importer"}

\* A Message-ID as a header carries it: a name, with or without angle brackets.
MessageId(bracketed, name) == [bracketed |-> bracketed, name |-> name]

\* email_parser.strip_angle_brackets
strip_angle_brackets(message_id) == MessageId(FALSE, message_id.name)

\* email_parser.normalize_message_id: the stored form, with angle brackets.
normalize_message_id(message_id) ==
    MessageId(TRUE, strip_angle_brackets(message_id).name)

\* The emails handed to import_email: rfc_message_id is normalized by the
\* parser; in_reply_to and references are as the headers had them.
EmailArgs ==
    {[rfc_message_id |-> MessageId(TRUE, n), in_reply_to |-> r, references |-> refs] :
        n \in {"m1", "m2", "m3"},
        r \in {NULL, Some(MessageId(FALSE, "m1")), Some(MessageId(TRUE, "m3"))},
        refs \in {<<>>,
                  <<MessageId(TRUE, "m3"), MessageId(FALSE, "m1")>>,
                  <<MessageId(TRUE, "m1"), MessageId(TRUE, "m2")>>}}

\* _build_index: rfc_message_id -> uuid over the Email items stored.
build_index(items) ==
    [m \in {items[u].rfc_message_id : u \in DOMAIN items} |->
        CHOOSE u \in DOMAIN items : items[u].rfc_message_id = m]

NoStats == [processed |-> 0, imported |-> 0, skipped |-> 0, errors |-> 0,
            relations_created |-> 0]

\* The store the importer is constructed on: empty, or holding one email.
InitImport ==
    /\ \E impl \in Impls :
       \E items \in {<<>>, 1 :> [rfc_message_id |-> MessageId(TRUE, "m1")]} :
          /\ db = [impl |-> impl, items |-> items, relations |-> <<>>]
          /\ chain = [email_index |-> build_index(items), stats |-> NoStats]
          /\ minted = Cardinality(DOMAIN items)
    /\ uow = NoScope
    /\ now = 0
    /\ pc = [p \in Callers |-> "idle"]
    /\ loc = [p \in Callers |-> NoLoc]
    /\ resp = [p \in Callers |-> NoResp]

ReplyRelation(source, target, method) ==
    [kind |-> "replies_to", source |-> source, target |-> target, method |-> method]

\* email_parser.create_threading_relations: the parent named by in_reply_to
\* if the index has it, else the last of references if the index has it.
create_threading_relations(email, email_uuid, email_index) ==
    LET direct == {normalize_message_id(m) : m \in email.in_reply_to}
                      \cap DOMAIN email_index
        references == email.references
    IN  IF direct # {}
        THEN <<ReplyRelation(email_uuid, email_index[CHOOSE m \in direct : TRUE],
                             "rfc_5322_in_reply_to")>>
        ELSE IF Len(references) > 0
                /\ normalize_message_id(references[Len(references)]) \in DOMAIN email_index
        THEN <<ReplyRelation(email_uuid,
                             email_index[normalize_message_id(references[Len(references)])],
                             "rfc_5322_references")>>
        ELSE <<>>

\* The number of times import_email calls _create_threading_relations:
\* soil/email_importer.py has the call twice in a row (lines 88 and 90),
\* mbox_importer/import_mbox.py once.
ThreadingCalls(impl) == IF impl = "soil" THEN 2 ELSE 1

\* import_email with the duplicate check left out.
import_email_unchecked(email) ==
    LET message_id  == email.rfc_message_id
        uuid        == minted + 1
        email_index == (message_id :> uuid) @@ chain.email_index
        relations   == create_threading_relations(email, uuid, email_index)
    IN  /\ now < MaxTime
        /\ minted < MaxIds
        /\ now' = now + 1
        /\ loc' = [loc EXCEPT ![Importer] = [NoLoc EXCEPT !.op = "import_email",
                                                          !.data = email]]
        /\ db' = [db EXCEPT !.items = (uuid :> [rfc_message_id |-> message_id]) @@ @,
                            !.relations = @ \o relations]
        /\ chain' = [email_index |-> email_index,
                     stats |-> [chain.stats EXCEPT
                                   !.imported = @ + 1,
                                   !.relations_created = @ + Len(relations)]]
        /\ minted' = uuid
        /\ resp' = [resp EXCEPT ![Importer] =
                       [status |-> 0, type |-> "result", imported |-> TRUE,
                        relations_created |-> Len(relations)]]
        /\ UNCHANGED <<uow, pc>>

\* import_email: skip an email whose rfc_message_id the index has; else store
\* the item, enter it in the index, and create its threading relations:
\* every call of _create_threading_relations stores the relations found and
\* adds their number to stats; the number of the last call is returned.
import_email(email) ==
    LET message_id == email.rfc_message_id IN
    /\ now < MaxTime
    /\ now' = now + 1
    /\ loc' = [loc EXCEPT ![Importer] = [NoLoc EXCEPT !.op = "import_email",
                                                      !.data = email]]
    /\ IF message_id \in DOMAIN chain.email_index
       THEN /\ chain' = [chain EXCEPT !.stats.skipped = @ + 1]
            /\ resp' = [resp EXCEPT ![Importer] =
                           [status |-> 0, type |-> "result", imported |-> FALSE,
                            relations_created |-> 0]]
            /\ UNCHANGED <<db, minted>>
       ELSE LET uuid        == minted + 1
                email_index == (message_id :> uuid) @@ chain.email_index
                relations   == create_threading_relations(email, uuid, email_index)
                calls       == ThreadingCalls(db.impl)
                created     == IF calls = 2 THEN relations \o relations ELSE relations
            IN  /\ minted < MaxIds
                /\ db' = [db EXCEPT
                              !.items = (uuid :> [rfc_message_id |-> message_id]) @@ @,
                              !.relations = @ \o created]
                /\ chain' = [email_index |-> email_index,
                             stats |-> [chain.stats EXCEPT
                                           !.imported = @ + 1,
                                           !.relations_created = @ + Len(created)]]
                /\ minted' = uuid
                /\ resp' = [resp EXCEPT ![Importer] =
                               [status |-> 0, type |-> "result", imported |-> TRUE,
                                relations_created |-> Len(relations)]]
    /\ UNCHANGED <<uow, pc>>

NextImport == \E email \in EmailArgs : import_email(email)

SpecImport == InitImport /\ [][NextImport]_vars

\* ======================================================================
\* Properties
\* ======================================================================

\* The versions of the history of u that were written by an update.
Updates(u) == 2..Len(chain[u])

\* C1: of two updates of one record that both read the same starting version,
\* exactly one is accepted: no two accepted updates of a record have read the
\* same version.
C1_ExactlyOneWins ==
    \A u \in DOMAIN chain : \A j, k \in Updates(u) :
        j # k => chain[u][j].read # chain[u][k].read

\* C2: no lost update: every accepted update is applied to exactly the state
\* it read, so the update that produced version n had read version n - 1.
C2_AppliedToStateRead ==
    \A u \in DOMAIN chain : \A n \in Updates(u) : chain[u][n].read = n - 1

\* C3: once the supersession of an entity is committed, its record (fields,
\* version, hash, previous_hash) never changes again, whatever an update in
\* flight had read before.
C3_ImmutableOnceSuperseded ==
    [][\A u \in DOMAIN db.record :
          (Exists(db, u) /\ IsSuperseded(db, u))
              => (u \in DOMAIN db'.record /\ db'.record[u] = db.record[u])]_vars

\* C3 witness: an update has passed its checks and waits to write while the
\* delete of the same entity has just committed.
C3_DeleteOvertakesUpdate ==
    \E p, q \in Callers :
        /\ pc[p] = "update_write"
        /\ resp[q] = NoContent
        /\ loc[q].id = loc[p].id
        /\ IsSuperseded(db, loc[p].id.uuid)

\* The caller p takes the step that accepts its update: the checks are passed
\* and the handler goes on to return the row.
Accepts(p) ==
    /\ loc'[p].op = "update"
    /\ pc[p] \in {"idle", "update_write"}
    /\ pc'[p] = "update_fetch"

\* C4 as stated: every accepted update changes the version from n to n + 1.
C4_EveryAcceptedUpdateBumps ==
    [][\A p \in Callers :
          Accepts(p) => db'.record[loc'[p].id.uuid].version
                            = db.record[loc'[p].id.uuid].version + 1]_vars

\* C4 (amended): a version is at least 1, is 1 at the create, and is the
\* position of the state in the record's history (no value skipped, none
\* repeated); an accepted update that sets at least one field changes it from
\* n to n + 1, an accepted update that sets no field leaves it as it is, and
\* no other step changes it.
C4_VersionCounts ==
    /\ [](\A u \in DOMAIN db.record :
             /\ db.record[u].version >= 1
             /\ db.record[u].version = Len(chain[u])
             /\ \A k \in 1..Len(chain[u]) : chain[u][k].state.version = k)
    /\ [][/\ \A u \in DOMAIN db'.record :
                u \notin DOMAIN db.record => db'.record[u].version = 1
          /\ \A u \in DOMAIN db.record :
                /\ u \in DOMAIN db'.record
                /\ \/ db'.record[u].version = db.record[u].version
                   \/ /\ db'.record[u].version = db.record[u].version + 1
                      /\ \E p \in Callers :
                            /\ Accepts(p)
                            /\ loc'[p].id.uuid = u
                            /\ DOMAIN loc[p].data # {}
          /\ \A p \in Callers :
                Accepts(p) =>
                    IF pc[p] = "update_write"
                    THEN db'.record[loc'[p].id.uuid].version
                             = db.record[loc'[p].id.uuid].version + 1
                    ELSE db' = db]_vars

\* C4 witness: a record has been updated twice and is at version 3.
C4_TwoUpdatesDone == \E u \in DOMAIN db.record : db.record[u].version = 3

\* C5: previous_hash is null exactly at version 1, and at every later version
\* it is the hash the record had one version before; the same holds of every
\* transaction row handed out in a response.
C5_HashChain ==
    /\ \A u \in DOMAIN db.record :
          /\ chain[u][Len(chain[u])].state = db.record[u]
          /\ \A k \in 1..Len(chain[u]) :
                LET r == chain[u][k].state IN
                /\ (r.previous_hash = NoHash) <=> (r.version = 1)
                /\ k > 1 => r.previous_hash = chain[u][k - 1].state.hash
    /\ \A p \in Callers :
          (resp[p].type = "row" /\ loc[p].kind = "transactions") =>
              LET r == resp[p].row IN
              /\ (r.previous_hash = NoHash) <=> (r.version = 1)
              /\ r.version > 1 =>
                    r.previous_hash = chain[r.uuid.uuid][r.version - 1].state.hash

\* C5 witness: a response shows a transaction at version 2.
C5_RowAtVersionTwo ==
    \E p \in Callers :
        /\ resp[p].type = "row"
        /\ loc[p].kind = "transactions"
        /\ resp[p].row.version = 2

\* The precondition (h, v) does not match the committed row of u.
Mismatch(u, h, v) ==
    \/ h # NoHash /\ h # db.record[u].hash
    \/ v # NULL /\ v # Some(db.record[u].version)

\* C6: an update of an existing, not superseded record with a precondition
\* that does not match is answered 409 Conflict with the current hash, the
\* current version and the client value that failed (client_hash for a hash
\* mismatch, client_version for a version mismatch), and changes nothing.
C6_StalePreconditionConflicts ==
    [][\A p \in Callers :
          ( /\ pc[p] = "idle"
            /\ loc'[p].op = "update"
            /\ InView(db, "transactions", loc'[p].id.uuid)
            /\ ~IsSuperseded(db, loc'[p].id.uuid) ) =>
              LET u == loc'[p].id.uuid
                  \* a step that answers Conflict keeps the request in loc
                  hs == IF resp'[p].type = "conflict"
                        THEN {loc'[p].based_on_hash} ELSE HashArgs(u)
                  vs == IF resp'[p].type = "conflict"
                        THEN {loc'[p].based_on_version} ELSE VersionArgs(u)
              IN
              \A h \in hs, v \in vs :
                  ( /\ Mismatch(u, h, v)
                    /\ update_transaction(p, add_core_prefix(u), loc'[p].data, h, v) )
                  => /\ resp'[p].type = "conflict"
                     /\ resp'[p].status = 409
                     /\ resp'[p].conflict.current_hash = db.record[u].hash
                     /\ resp'[p].conflict.current_version = db.record[u].version
                     /\ IF h # NoHash /\ h # db.record[u].hash
                        THEN resp'[p].conflict.client_hash = h
                        ELSE resp'[p].conflict.client_version = v
                     /\ UNCHANGED <<db, chain, uow, now>>]_vars

\* C6 witness: the stale update of the design's scenario 3: the record is at
\* version 2 and the client expected version 1.
C6_StaleVersionRejected ==
    \E p \in Callers :
        /\ resp[p].type = "conflict"
        /\ resp[p].conflict.current_version = 2
        /\ resp[p].conflict.client_version = Some(1)
        /\ ~IsSuperseded(db, loc[p].id.uuid)

\* C7: an update of a superseded entity fails with ImmutableRecord whatever
\* its precondition: the request is not answered by anything else, and the
\* write it may reach is rejected.
C7_SupersededAlwaysImmutable ==
    [][\A p \in Callers :
          LET u == loc'[p].id.uuid IN
          ( /\ loc'[p].op = "update"
            /\ pc[p] \in {"idle", "update_write"}
            /\ pc'[p] # pc[p]
            /\ InView(db, "transactions", u)
            /\ IsSuperseded(db, u) )
          => /\ \/ resp'[p] = ErrorResponse("ImmutableRecord")
                \/ pc[p] = "idle" /\ pc'[p] = "update_write"
             /\ db' = db]_vars

\* C8: the tombstone of a deleted entity is an entity of its own: not the
\* deleted entity, not a record's id, not the tombstone of any other entity;
\* an id once given to an entity stays with it; and a delete of an entity
\* that is already superseded fails with AlreadySuperseded.
C8_TombstoneDistinct ==
    /\ [](\A u \in DOMAIN db.entity : \A t \in db.entity[u].superseded_by :
             /\ t # u
             /\ t \in DOMAIN db.entity
             /\ t \notin DOMAIN db.record
             /\ \A w \in DOMAIN db.entity : w # u => t \notin db.entity[w].superseded_by)
    /\ [][/\ \A u \in DOMAIN db.entity :
                /\ u \in DOMAIN db'.entity
                /\ db'.entity[u].kind = db.entity[u].kind
                /\ db'.entity[u].created_at = db.entity[u].created_at
          /\ \A p \in Callers :
                ( /\ pc[p] = "delete_supersede"
                  /\ pc'[p] # pc[p]
                  /\ IsSuperseded(db, loc[p].id.uuid) )
                => /\ resp'[p] = ErrorResponse("AlreadySuperseded")
                   /\ db' = db]_vars

\* C8 witness: a second delete of an entity has been rejected; the entity
\* keeps the tombstone of the first.
C8_SecondDeleteRejected ==
    \E p \in Callers :
        /\ loc[p].op = "delete"
        /\ resp[p] = ErrorResponse("AlreadySuperseded")
        /\ db.entity[loc[p].id.uuid].superseded_by # NULL
        /\ loc[p].tombstone_id \notin db.entity[loc[p].id.uuid].superseded_by

\* C9: supersession is terminal: superseded_by and superseded_at of a
\* superseded entity never change and are never cleared.
C9_SupersessionTerminal ==
    [][\A u \in DOMAIN db.entity :
          IsSuperseded(db, u) =>
              /\ u \in DOMAIN db'.entity
              /\ db'.entity[u].superseded_by = db.entity[u].superseded_by
              /\ db'.entity[u].superseded_at = db.entity[u].superseded_at]_vars

\* C9 witness: something has been committed after an entity was superseded.
C9_CommitAfterSupersede ==
    \E u \in DOMAIN db.entity : \E t \in db.entity[u].superseded_at : now > t + 1

\* C10: in every committed state a tombstone exists exactly together with the
\* supersession that points to it, and a delete that fails commits nothing.
C10_DeleteAtomic ==
    /\ [](/\ \A u \in DOMAIN db.entity : db.entity[u].superseded_by \subseteq DOMAIN db.entity
          /\ \A t \in DOMAIN db.entity \ DOMAIN db.record :
                \E u \in DOMAIN db.entity : db.entity[u].superseded_by = Some(t))
    /\ [][\A p \in Callers :
             (loc'[p].op = "delete" /\ resp[p] = NoResp /\ resp'[p].type = "error")
                 => db' = db]_vars

\* C10 witness: a delete has failed after its tombstone was staged, and the
\* tombstone is not in the registry.
C10_FailedDeleteLeavesNothing ==
    \E p \in Callers :
        /\ loc[p].op = "delete"
        /\ resp[p] = ErrorResponse("StorageError")
        /\ loc[p].tombstone_id # UnknownUuid
        /\ loc[p].tombstone_id \notin DOMAIN db.entity

\* The caller p takes the step that commits its delete.
DeleteCommits(p) == pc[p] = "delete_exit" /\ pc'[p] = "done"

\* C11: a successful delete adds exactly one entity, the tombstone, and sets
\* superseded_by and superseded_at of the target; the target's record, id,
\* kind, created_at and updated_at, and every other entity and record, are as
\* they were.
C11_DeleteFrame ==
    [][\A p \in Callers :
          DeleteCommits(p) =>
              LET u == loc[p].id.uuid
                  t == loc[p].tombstone_id
              IN  /\ db'.record = db.record
                  /\ chain' = chain
                  /\ t \notin DOMAIN db.entity
                  /\ DOMAIN db'.entity = DOMAIN db.entity \cup {t}
                  /\ \A w \in DOMAIN db.entity \ {u} : db'.entity[w] = db.entity[w]
                  /\ db'.entity[u].superseded_by = Some(t)
                  /\ db'.entity[u].superseded_at # NULL
                  /\ db'.entity[u] =
                        [db.entity[u] EXCEPT !.superseded_by = Some(t),
                                             !.superseded_at = db'.entity[u].superseded_at]]_vars

\* C11 witness: a record that had been updated has been deleted.
C11_UpdatedRecordDeleted ==
    \E p \in Callers :
        /\ loc[p].op = "delete"
        /\ resp[p] = NoContent
        /\ db.record[loc[p].id.uuid].version = 2

\* C12: a get of a deleted entity answers 200 with the entity's record and
\* superseded_by set to the tombstone; that record is the one the entity had
\* when it was deleted, since it does not change afterwards; a list shows the
\* entity exactly when superseded rows are asked for; and no step removes an
\* entity or a record.
C12_SupersededStaysReadable ==
    /\ [](\A p \in Callers :
             LET u == loc[p].id.uuid IN
             /\ ( /\ loc[p].op = "get"
                  /\ resp[p] # NoResp
                  /\ InView(db, "transactions", u)
                  /\ IsSuperseded(db, u) )
                => /\ resp[p].type = "row"
                   /\ resp[p].status = 200
                   /\ resp[p].row.fields = db.record[u].fields
                   /\ resp[p].row.version = db.record[u].version
                   /\ resp[p].row.hash = db.record[u].hash
                   /\ resp[p].row.superseded_by
                         = {add_core_prefix(t) : t \in db.entity[u].superseded_by}
             /\ (loc[p].op = "list" /\ resp[p] # NoResp)
                => /\ resp[p].type = "rows"
                   /\ {r.uuid.uuid : r \in resp[p].rows}
                         = {w \in DOMAIN db.record :
                               loc[p].data.include_superseded \/ ~IsSuperseded(db, w)})
    /\ [][/\ DOMAIN db.entity \subseteq DOMAIN db'.entity
          /\ DOMAIN db.record \subseteq DOMAIN db'.record
          /\ \A u \in DOMAIN db.record :
                IsSuperseded(db, u) => db'.record[u] = db.record[u]]_vars

\* C12 witness: a list without superseded rows answers with the live rows
\* while a deleted record exists.
C12_ListHidesDeleted ==
    \E p \in Callers :
        /\ loc[p].op = "list"
        /\ resp[p].type = "rows"
        /\ ~loc[p].data.include_superseded
        /\ resp[p].rows # {}
        /\ \E u \in DOMAIN db.record : IsSuperseded(db, u)

\* C13 as stated: every record has an entity, and every entity of a
\* versioned kind has a record.
C13_EveryEntityHasRecord ==
    /\ DOMAIN db.record \subseteq DOMAIN db.entity
    /\ \A u \in DOMAIN db.entity : db.entity[u].kind \in Kinds => u \in DOMAIN db.record

\* C13 (amended): in every committed state every record has an entity with
\* its id, of the kind it was created as, and every entity without a record
\* is a tombstone: the superseded_by of an entity of the same kind that has a
\* record.
C13_Pairing ==
    /\ \A u \in DOMAIN db.record :
          /\ u \in DOMAIN db.entity
          /\ db.entity[u].kind = "transactions"
          /\ InView(db, "transactions", u)
    /\ \A t \in DOMAIN db.entity \ DOMAIN db.record :
          \E u \in DOMAIN db.record :
              /\ db.entity[u].superseded_by = Some(t)
              /\ db.entity[u].kind = db.entity[t].kind

\* C13 witness: a committed state with a tombstone and a live record.
C13_TombstoneBesideLiveRecord ==
    /\ ScopeFree
    /\ \E t \in DOMAIN db.entity : t \notin DOMAIN db.record
    /\ \E u \in DOMAIN db.record : ~IsSuperseded(db, u)

\* What the open scope of p has staged: the committed storage with the
\* writes p has made so far, in the order of the calls.
StagedBy(p) ==
    CASE pc[p] = "create_exit" ->
            Record_create(db, loc[p].id.uuid, loc[p].kind, loc[p].data, now)
      [] pc[p] = "delete_supersede" ->
            Registry_create(db, loc[p].tombstone_id, loc[p].kind, now)
      [] pc[p] = "delete_exit" ->
            Registry_supersede(Registry_create(db, loc[p].tombstone_id, loc[p].kind, now),
                               loc[p].id.uuid, loc[p].tombstone_id, now)
      [] OTHER -> db

\* C14: the writes made through a scope are staged in call order on top of
\* the committed state and are not visible while the scope is open; the step
\* that closes the scope makes all of them visible (commit) or none (an exit
\* through an error), so that a rolled-back scope leaves the committed state
\* as it was before begin().
C14_ScopeAtomic ==
    /\ [](/\ ScopeFree => uow = NoScope
          /\ \A p \in Callers : Owns(p) => uow.db = StagedBy(p))
    /\ [][/\ ~ScopeFree' => db' = db
          /\ \A p \in Callers :
                (Owns(p) /\ ScopeFree') =>
                    IF resp'[p].type = "error" THEN db' = db ELSE db' = uow.db]_vars

\* C14 witness: while a delete is staged and not yet committed, a reader is
\* shown the target as not superseded.
C14_ReaderSeesCommittedState ==
    \E p, q \in Callers :
        /\ pc[p] = "delete_exit"
        /\ uow.db # db
        /\ loc[q].op = "get"
        /\ resp[q].type = "row"
        /\ loc[q].id.uuid = loc[p].id.uuid
        /\ resp[q].row.superseded_by = NULL

\* The rows a response hands out.
RowsOf(r) ==
    IF r.type = "row" THEN {r.row} ELSE IF r.type = "rows" THEN r.rows ELSE {}

\* C15: superseded_at is set exactly when superseded_by is: for every entity,
\* committed or staged, and in every row of a response.
C15_SupersededJointly ==
    /\ \A d \in {db, uow.db} : \A u \in DOMAIN d.entity :
          (d.entity[u].superseded_at # NULL) <=> (d.entity[u].superseded_by # NULL)
    /\ \A p \in Callers : \A r \in RowsOf(resp[p]) :
          (r.superseded_at # NULL) <=> (r.superseded_by # NULL)

\* C15 witness: a response shows a deleted transaction.
C15_DeletedRowShown ==
    \E p \in Callers : \E r \in RowsOf(resp[p]) :
        r.superseded_at # NULL /\ r.superseded_by # NULL

\* The hashes the record u had at its earlier versions.
StaleHashes(u) == {chain[u][k].state.hash : k \in 1..(Len(chain[u]) - 1)}

\* C16: every version of a record has a hash of its own, also when its fields
\* are those of an earlier version; and an update that names the hash of an
\* earlier version is answered 409 Conflict with the current hash and that
\* client hash, and changes nothing.
C16_OldHashDetected ==
    /\ [](\A u \in DOMAIN chain : \A j, k \in 1..Len(chain[u]) :
             j # k => chain[u][j].state.hash # chain[u][k].state.hash)
    /\ [][\A p \in Callers :
             ( /\ pc[p] = "idle"
               /\ loc'[p].op = "update"
               /\ InView(db, "transactions", loc'[p].id.uuid) ) =>
                 LET u == loc'[p].id.uuid
                     \* a step that answers Conflict keeps the request in loc
                     hs == IF resp'[p].type = "conflict"
                           THEN {loc'[p].based_on_hash} ELSE HashArgs(u)
                     vs == IF resp'[p].type = "conflict"
                           THEN {loc'[p].based_on_version} ELSE VersionArgs(u)
                 IN
                 \A h \in hs \cap StaleHashes(u), v \in vs :
                     update_transaction(p, add_core_prefix(u), loc'[p].data, h, v)
                     => /\ resp'[p].type = "conflict"
                        /\ resp'[p].status = 409
                        /\ resp'[p].conflict.current_hash = db.record[u].hash
                        /\ resp'[p].conflict.client_hash = h
                        /\ UNCHANGED <<db, chain, uow, now>>]_vars

\* C16 witness: the fields of a record were changed and then restored, and an
\* update naming the hash of version 1 has been answered Conflict.
C16_RestoredFieldsDetected ==
    \E p \in Callers :
        LET u == loc[p].id.uuid IN
        /\ resp[p].type = "conflict"
        /\ u \in DOMAIN chain
        /\ Len(chain[u]) = 3
        /\ chain[u][3].state.fields = chain[u][1].state.fields
        /\ resp[p].conflict.client_hash = chain[u][1].state.hash

\* What an update of the record u with precondition (h, v) and a non-empty
\* body comes to when it runs on the committed state with no other write in
\* between: the handler's checks, then the core's update.
RetryOutcome(u, h, v) ==
    IF get_by_id_outcome(db, "transactions", ApiId("", u)) # "ok" THEN "NotFound"
    ELSE IF ~Passes(u, h, v) THEN "Conflict"
    ELSE Record_update_outcome(db, "transactions", u)

\* C17: when an update has been answered Conflict{current_hash,
\* current_version}, the same update reissued on the unchanged record with
\* ExpectVersion(current_version), or with ExpectHash(current_hash), is
\* accepted and produces version current_version + 1.
C17_ConflictIsRetryable ==
    \A p \in Callers :
        resp[p].type = "conflict" =>
            LET u == loc[p].id.uuid
                c == resp[p].conflict
            IN  /\ RetryOutcome(u, NoHash, Some(c.current_version)) = "ok"
                /\ RetryOutcome(u, c.current_hash, NULL) = "ok"
                /\ \A data \in UpdateData :
                      Record_update(db, u, data, now).record[u].version
                          = c.current_version + 1

\* The caller p takes the step in which its write is accepted.
Writes(p) == pc[p] = "update_write" /\ pc'[p] = "update_fetch"

\* C18: the write of an accepted update gives every field named in the body
\* the value of the body and leaves every other field as it was in the state
\* the write was applied to.
C18_PartialUpdate ==
    [][\A p \in Callers :
          Writes(p) =>
              LET u    == loc[p].id.uuid
                  data == loc[p].data
              IN  /\ DOMAIN db'.record[u].fields = Fields
                  /\ \A f \in Fields :
                        db'.record[u].fields[f] =
                            IF f \in DOMAIN data THEN data[f] ELSE db.record[u].fields[f]]_vars

\* C18 witness: an update that named only amount was applied to a record
\* whose account an earlier update had set to 1, and account is still 1.
C18_UnnamedFieldKept ==
    \E u \in DOMAIN chain :
        /\ Len(chain[u]) = 3
        /\ chain[u][2].state.fields = [amount |-> 0, account |-> 1]
        /\ chain[u][3].state.fields = [amount |-> 1, account |-> 1]

\* C19 as stated: every accepted update sets updated_at to the time of the
\* update.
C19_EveryAcceptedUpdateStamps ==
    [][\A p \in Callers :
          Accepts(p) => db'.entity[loc'[p].id.uuid].updated_at = now]_vars

\* C19 (amended): the write of an accepted update that sets at least one
\* field stamps the entity's updated_at with the time of the write; an
\* accepted update that sets no field, and a request answered with an error
\* or a Conflict, change nothing; updated_at changes in no other step; and
\* the kind and created_at of an entity, and the entity under an id, never
\* change.
C19_Timestamps ==
    [][/\ \A p \in Callers :
             /\ Writes(p) => ( /\ DOMAIN loc[p].data # {}
                               /\ db'.entity[loc[p].id.uuid].updated_at = now )
             /\ (Accepts(p) /\ ~Writes(p)) => db' = db
             /\ (resp[p] = NoResp /\ resp'[p].type \in {"error", "conflict"}) => db' = db
       /\ \A u \in DOMAIN db.entity :
             /\ u \in DOMAIN db'.entity
             /\ db'.entity[u].kind = db.entity[u].kind
             /\ db'.entity[u].created_at = db.entity[u].created_at
             /\ db'.entity[u].updated_at # db.entity[u].updated_at
                   => \E p \in Callers : Writes(p) /\ loc[p].id.uuid = u]_vars

\* C19 witness: an entity whose record was updated after its creation.
C19_UpdatedAfterCreation ==
    \E u \in DOMAIN db.entity : db.entity[u].updated_at > db.entity[u].created_at

\* The caller p takes the step that commits its create.
CreateCommits(p) == pc[p] = "create_exit" /\ pc'[p] = "create_fetch"

\* C20: the commit of a create adds an entity and a record under an id that
\* no entity had: the record has the fields the handler passed to the core,
\* version 1, no previous_hash and hash = Hasher(fields, null); the entity has
\* the kind created, created_at =
\* updated_at and no supersession, group or provenance; and nothing else
\* changes.  The answer to a create is 201 with the row of that id.
C20_CreatePostconditions ==
    /\ [](\A p \in Callers :
             (loc[p].op = "create" /\ resp[p].type = "row")
                 => /\ resp[p].status = 201
                    /\ resp[p].row.uuid = add_core_prefix(loc[p].id.uuid))
    /\ [][\A p \in Callers :
             CreateCommits(p) =>
                 LET u    == loc[p].id.uuid
                     data == loc[p].data
                 IN  /\ u \notin DOMAIN db.entity
                     /\ u \notin DOMAIN db.record
                     /\ db'.record[u] = [fields        |-> data,
                                         version       |-> 1,
                                         hash          |-> Hasher(data, NoHash),
                                         previous_hash |-> NoHash]
                     /\ db'.entity[u].kind = "transactions"
                     /\ db'.entity[u].created_at = now
                     /\ db'.entity[u].updated_at = db'.entity[u].created_at
                     /\ db'.entity[u].superseded_by = NULL
                     /\ db'.entity[u].superseded_at = NULL
                     /\ db'.entity[u].group_id = NULL
                     /\ db'.entity[u].derived_from = NULL
                     /\ DOMAIN db'.entity = DOMAIN db.entity \cup {u}
                     /\ DOMAIN db'.record = DOMAIN db.record \cup {u}
                     /\ \A w \in DOMAIN db.entity : db'.entity[w] = db.entity[w]
                     /\ \A w \in DOMAIN db.record : db'.record[w] = db.record[w]]_vars

\* C20 witness: a create has committed after a delete had minted a tombstone.
C20_CreateAfterDelete ==
    \E p \in Callers :
        /\ pc[p] = "create_fetch"
        /\ loc[p].id.uuid \in DOMAIN db.record
        /\ \E t \in DOMAIN db.entity : t \notin DOMAIN db.record /\ t < loc[p].id.uuid

\* C21: a get, an update or a delete of an id that has no record of the kind
\* (an id never given out, or the id of a tombstone) is answered 404 NotFound
\* in one step and changes nothing: no entity, no record, no staged write, no
\* id minted.
C21_UnknownIdNotFound ==
    [][\A p \in Callers :
          ( /\ pc[p] = "idle"
            /\ loc'[p].op \in {"get", "update", "delete"}
            /\ ~InView(db, "transactions", loc'[p].id.uuid) )
          => /\ resp'[p] = ErrorResponse("NotFound")
             /\ resp'[p].status = 404
             /\ pc'[p] = "done"
             /\ UNCHANGED <<db, uow, chain, minted, now>>]_vars

\* C21 witness: a delete of an id that no entity has was answered NotFound
\* while a record exists, and no tombstone was made.
C21_UnknownDeleteRejected ==
    \E p \in Callers :
        /\ loc[p].op = "delete"
        /\ resp[p] = ErrorResponse("NotFound")
        /\ loc[p].id.uuid \notin DOMAIN db.entity
        /\ db.record # <<>>
        /\ DOMAIN db.entity = DOMAIN db.record

\* C22: an update of an existing, not superseded recurrence with a
\* precondition (expected hash or expected version) that does not match the
\* current row is answered Conflict and changes nothing.
C22_RecurrenceStaleConflicts ==
    [][\A p \in Callers :
          ( /\ pc[p] = "idle"
            /\ loc'[p].op = "update"
            /\ loc'[p].kind = "recurrences"
            /\ InView(db, "recurrences", loc'[p].id.uuid)
            /\ ~IsSuperseded(db, loc'[p].id.uuid) ) =>
              LET u == loc'[p].id.uuid IN
              \A h \in HashArgs(u), v \in VersionArgs(u) :
                  ( /\ Mismatch(u, h, v)
                    /\ update_recurrence(p, ApiId("", u), loc'[p].data, h, v) )
                  => /\ resp'[p].type = "conflict"
                     /\ UNCHANGED <<db, chain, uow, now>>]_vars

C25_AtMostOneAdmin ==
    Cardinality({u \in DOMAIN db.users : db.users[u].is_admin}) <= 1

\* C26: an update of an existing transaction that names both based_on_hash
\* and based_on_version passes the checks only if both match the row read.
\* The hash is compared first: a hash that does not match is answered 409
\* with client_hash and no client_version, whatever the version named; a
\* matching hash with a version that does not match is answered 409 with
\* client_version and no client_hash.  Neither answer changes anything.
C26_HashCheckedFirst ==
    [][\A p \in Callers :
          ( /\ pc[p] = "idle"
            /\ loc'[p].op = "update"
            /\ InView(db, "transactions", loc'[p].id.uuid) ) =>
              LET u == loc'[p].id.uuid
                  \* a step that answers Conflict keeps the request in loc
                  hs == IF resp'[p].type = "conflict"
                        THEN {loc'[p].based_on_hash} ELSE HashArgs(u)
                  vs == IF resp'[p].type = "conflict"
                        THEN {loc'[p].based_on_version} ELSE VersionArgs(u)
              IN
              \A h \in hs \ {NoHash}, v \in vs \ {NULL} :
                  update_transaction(p, add_core_prefix(u), loc'[p].data, h, v) =>
                      IF h # db.record[u].hash
                      THEN /\ resp'[p].type = "conflict"
                           /\ resp'[p].status = 409
                           /\ resp'[p].conflict.client_hash = h
                           /\ resp'[p].conflict.client_version = NULL
                           /\ UNCHANGED <<db, chain, uow, now>>
                      ELSE IF v # Some(db.record[u].version)
                      THEN /\ resp'[p].type = "conflict"
                           /\ resp'[p].status = 409
                           /\ resp'[p].conflict.client_version = v
                           /\ resp'[p].conflict.client_hash = NoHash
                           /\ UNCHANGED <<db, chain, uow, now>>
                      ELSE /\ resp'[p] = NoResp
                           /\ pc'[p] \in {"update_write", "update_fetch"}]_vars

\* C26 witness: an update that named a stale hash and a stale version was
\* answered with the client_hash alone.
C26_BothStaleHashReported ==
    \E p \in Callers :
        /\ resp[p].type = "conflict"
        /\ loc[p].based_on_hash \in StaleHashes(loc[p].id.uuid)
        /\ loc[p].based_on_version # NULL
        /\ loc[p].based_on_version # Some(resp[p].conflict.current_version)
        /\ resp[p].conflict.client_hash = loc[p].based_on_hash
        /\ resp[p].conflict.client_version = NULL

\* C27: an update of an existing transaction whose body sets no business
\* field never reaches the write: with a precondition that does not match it
\* is answered 409, otherwise the handler goes straight to the fetch; the
\* fetch answers 200 with the committed row as it is, and neither step
\* changes the record, its version, hash, previous_hash or updated_at.
C27_EmptyUpdateWritesNothing ==
    [][\A p \in Callers :
          /\ ( /\ pc[p] = "idle"
               /\ loc'[p].op = "update"
               /\ InView(db, "transactions", loc'[p].id.uuid) ) =>
                 LET u == loc'[p].id.uuid
                     \* a step that answers Conflict keeps the request in loc
                     hs == IF resp'[p].type = "conflict"
                           THEN {loc'[p].based_on_hash} ELSE HashArgs(u)
                     vs == IF resp'[p].type = "conflict"
                           THEN {loc'[p].based_on_version} ELSE VersionArgs(u)
                 IN
                 \A h \in hs, v \in vs :
                     update_transaction(p, add_core_prefix(u), <<>>, h, v) =>
                         /\ IF Mismatch(u, h, v)
                            THEN resp'[p].type = "conflict" /\ resp'[p].status = 409
                            ELSE resp'[p] = NoResp /\ pc'[p] = "update_fetch"
                         /\ UNCHANGED <<db, chain, uow, now>>
          /\ ( /\ pc[p] = "update_fetch"
               /\ pc'[p] # pc[p]
               /\ InView(db, "transactions", loc[p].id.uuid) ) =>
                 /\ resp'[p] = RowResponse(200, get_by_id(db, loc[p].id))
                 /\ UNCHANGED <<db, chain, uow, now>>]_vars

\* C27 witness: an update with a matching version and no field has been
\* answered with the row, still at version 1 and with the updated_at of its
\* creation.
C27_EmptyUpdateAnswered ==
    \E p \in Callers :
        /\ loc[p].op = "update"
        /\ resp[p].type = "row"
        /\ resp[p].status = 200
        /\ resp[p].row.version = 1
        /\ resp[p].row.previous_hash = NoHash
        /\ resp[p].row.updated_at = resp[p].row.created_at
        /\ now > resp[p].row.created_at + 1

\* C28: no two Email items stored have the same rfc_message_id, and the
\* index knows every item stored; a call with an rfc_message_id the index has
\* stores no item and no relation, adds one to stats["skipped"] and to
\* nothing else, and returns (False, 0).
C28_ImportDeduplicates ==
    /\ [](/\ \A u, w \in DOMAIN db.items :
                db.items[u].rfc_message_id = db.items[w].rfc_message_id => u = w
          /\ \A u \in DOMAIN db.items :
                /\ db.items[u].rfc_message_id \in DOMAIN chain.email_index
                /\ chain.email_index[db.items[u].rfc_message_id] = u)
    /\ [][(loc'[Importer].data.rfc_message_id \in DOMAIN chain.email_index) =>
             /\ db' = db
             /\ minted' = minted
             /\ chain'.email_index = chain.email_index
             /\ chain'.stats = [chain.stats EXCEPT !.skipped = @ + 1]
             /\ resp'[Importer].imported = FALSE
             /\ resp'[Importer].relations_created = 0]_vars

\* C28 witness: an email already stored when the importer was constructed has
\* been offered again and skipped, after another email was imported.
C28_StoredEmailSkipped ==
    /\ resp[Importer].type = "result"
    /\ ~resp[Importer].imported
    /\ chain.stats.skipped = 1
    /\ chain.stats.imported = 1
    /\ Cardinality(DOMAIN db.items) = 2
    /\ chain.email_index[loc[Importer].data.rfc_message_id] = 1

\* C29: the import of a new email stores as many replies_to relations as
\* create_threading_relations finds for it (none or one), returns that number
\* and adds that number to stats["relations_created"].
C29_OneRelationPerEmail ==
    [][(loc'[Importer].data.rfc_message_id \notin DOMAIN chain.email_index) =>
          LET email    == loc'[Importer].data
              expected == Len(create_threading_relations(email, minted', chain'.email_index))
          IN  /\ expected \in {0, 1}
              /\ Len(db'.relations) = Len(db.relations) + expected
              /\ resp'[Importer].relations_created = expected
              /\ chain'.stats.relations_created
                    = chain.stats.relations_created + expected]_vars

\* The tombstones of the committed state: the entities some superseded_by
\* points to.
Tombstones == UNION {db.entity[u].superseded_by : u \in DOMAIN db.entity}

====
